---- MODULE Spec2Model ----
(***************************************************************************)
(* The multi-account gateway of src/Hedge/account.py: the pool of          *)
(* authenticated accounts (FyersLoadBalancer), the session file, and       *)
(* FyersAccount.execute_api_call with its error handling.                  *)
(*                                                                         *)
(* Texts are sequences of one-character strings, so that lower() and the   *)
(* substring test `x in error_str` are computed, not assumed.              *)
(* Times are whole seconds.                                                *)
(***************************************************************************)
EXTENDS Integers, Sequences, FiniteSets, TLC

VARIABLES
    active_accounts,  \* balancer.active_accounts: the deque of account dicts
    current,          \* balancer._current_account: client_id of the dict, or None
    now,              \* the wall clock, datetime.now() / time.time()
    session_file,     \* the contents of SESSION_FILE
    pc,               \* where the caller of execute_api_call is
    attempt,          \* the index `_` of the for loop of execute_api_call
    account,          \* the local variable `account` of execute_api_call
    log,              \* history: the invocations and logins of the current call
    outcome,          \* history: what the last call returned or raised
    served,           \* history: who served each call, while no call has failed
    picked,           \* history: the direct calls of get_next_account in a row
    issued,           \* history: the time each token was issued by a login
    loaded,           \* history: what the last _load_sessions read and restored
    callers           \* the threads inside execute_api_call, when there are several

\* The variables of the store and of the threads, which the single caller and
\* the balancer on its own leave alone.
elsewhere == <<issued, loaded, callers>>

vars == <<active_accounts, current, now, session_file, pc, attempt, account,
          log, outcome, served, picked, issued, loaded, callers>>

----------------------------------------------------------------------------
\* Bounds of the model.

\* Number of configured credentials (self.accounts).
NumAccounts == 2
\* The configured limit of calls per window (100 in the source, scaled down).
calls_per_minute == 1
\* Calls counted on one account are followed up to this number.
MaxCalls == 2
\* The clock is followed up to this second.
MaxNow == 60
\* Successful re-logins followed in one run of the program.
MaxLogins == 1

\* The length of the rate-limit window, in seconds.
Window == 60
\* timedelta.seconds is the seconds part of the difference, below one day.
SecondsPerDay == 86400

\* client_ids are 1..NumAccounts; None is the value of a reference that
\* points to no account, Unbound that of a local not yet assigned.
None == 0
Unbound == -1

\* self.accounts: the configured credentials, identified by client_id.
Accounts == 1..NumAccounts

\* How far the clock moves in one step.
TickSteps == {60}

----------------------------------------------------------------------------
\* Texts.

UpperCase ==
    <<"A","B","C","D","E","F","G","H","I","J","K","L","M","N","O","P","Q","R","S","T","U","V","W","X","Y","Z">>
LowerCase ==
    <<"a","b","c","d","e","f","g","h","i","j","k","l","m","n","o","p","q","r","s","t","u","v","w","x","y","z">>

\* str.lower() on one character.
LowerChar(c) ==
    IF \E i \in 1..Len(UpperCase) : UpperCase[i] = c
    THEN LowerCase[CHOOSE i \in 1..Len(UpperCase) : UpperCase[i] = c]
    ELSE c

\* str.lower()
lower(s) == [i \in 1..Len(s) |-> LowerChar(s[i])]

\* The substring test `sub in s`.
Contains(sub, s) ==
    \E i \in 1..(Len(s) - Len(sub) + 1) : SubSeq(s, i, i + Len(sub) - 1) = sub

\* FyersError.ERRORS: kind -> <<code, message>>
ERRORS ==
    [ 
      expired_token |-> <<<<"s","-","1">>,
          <<"T","o","k","e","n"," ","i","s"," ","e","x","p","i","r","e","d">>>>,
      invalid_token |-> <<<<"s","-","2">>,
          <<"I","n","v","a","l","i","d"," ","t","o","k","e","n">>>>,
      token_mismatch |-> <<<<"s","-","4">>,
          <<"T","o","k","e","n"," ","m","i","s","m","a","t","c","h">>>>,
      invalid_key |-> <<<<"s","-","5">>,
          <<"I","n","v","a","l","i","d"," ","k","e","y">>>>,
      rate_limit |-> <<<<"s","-","3">>,
          <<"R","a","t","e"," ","l","i","m","i","t"," ","r","e","a","c","h","e","d">>>>,
      too_many_requests |-> <<<<"4","2","9">>,
          <<"T","o","o"," ","m","a","n","y"," ","r","e","q","u","e","s","t","s">>>>,
      invalid_param |-> <<<<"e","r","r","o","r","-","1","0","0">>,
          <<"I","n","v","a","l","i","d"," ","p","a","r","a","m","e","t","e","r">>>>,
      missing_param |-> <<<<"e","r","r","o","r","-","1","0","1">>,
          <<"M","i","s","s","i","n","g"," ","p","a","r","a","m","e","t","e","r">>>>,
      invalid_credentials |-> <<<<"e","r","r","o","r","-","1","0","2">>,
          <<"I","n","v","a","l","i","d"," ","c","r","e","d","e","n","t","i","a","l","s">>>>,
      market_closed |-> <<<<"e","r","r","o","r","-","1","0","3">>,
          <<"M","a","r","k","e","t"," ","i","s"," ","c","l","o","s","e","d">>>>
    ]

\* code.lower() and msg.lower() of every table entry.
LoweredErrors == [k \in DOMAIN ERRORS |-> <<lower(ERRORS[k][1]), lower(ERRORS[k][2])>>]

\* `code.lower() in error_str or msg.lower() in error_str` for one table entry.
EntryMatches(k, error_str) ==
    \/ Contains(LoweredErrors[k][1], error_str)
    \/ Contains(LoweredErrors[k][2], error_str)

\* Mutant of TokenKinds: the rate-limit kinds are in the token list too.
TokenKindsAndRateKinds ==
    {"expired_token", "invalid_token", "token_mismatch", "rate_limit",
     "too_many_requests"}

\* Mutant of TokenKinds: an expired token is not among the token errors.
TokenKindsWithoutExpired == {"invalid_token", "token_mismatch"}

\* The kinds the first `any(...)` of the handler goes through.
TokenKinds == {"expired_token", "invalid_token", "token_mismatch"}
\* The kinds the second `any(...)` of the handler goes through.
RateKinds == {"rate_limit", "too_many_requests"}

\* any(... for k in ['expired_token', 'invalid_token', 'token_mismatch'])
IsTokenError(error_str) == \E k \in TokenKinds : EntryMatches(k, error_str)

\* any(... for k in ['rate_limit', 'too_many_requests'])
IsRateError(error_str) == \E k \in RateKinds : EntryMatches(k, error_str)

\* Every kind of the table whose code or message the text contains.
KindsIn(text) == {k \in DOMAIN ERRORS : EntryMatches(k, lower(text))}

\* str(e) of the exceptions of the model, by a name for each. The first six
\* are raised by broker invocations: a token failure as the broker words it,
\* an invalid-key failure, a throttling failure, a text that carries a token
\* code and a rate-limit code, a text no table entry matches, an API error.
\* The last two are get_next_account's own.
Message ==
    [ TokenIsExpired |->
          <<"T","o","k","e","n"," ","i","s"," ","e","x","p","i","r","e","d">>,
      InvalidKey |->
          <<"I","n","v","a","l","i","d"," ","k","e","y">>,
      TooManyRequests |->
          <<"T","o","o"," ","m","a","n","y"," ","r","e","q","u","e","s","t","s">>,
      ExpiredAndLimited |->
          <<"s","-","1"," ","s","-","3">>,
      Outage |->
          <<"u","n","e","x","p","e","c","t","e","d"," ","b","r","o","k","e","r"," ","o","u","t","a","g","e">>,
      MarketClosed |->
          <<"M","a","r","k","e","t"," ","i","s"," ","c","l","o","s","e","d">>,
      NoActiveAccounts |->
          <<"N","o"," ","a","c","t","i","v","e"," ","a","c","c","o","u","n","t","s"," ","a","v","a","i","l","a","b","l","e">>,
      AllRateLimited |->
          <<"A","l","l"," ","a","c","c","o","u","n","t","s"," ","h","a","v","e"," ","r","e","a","c","h","e","d"," ","r","a","t","e"," ","l","i","m","i","t">>
    ]

\* The exceptions a broker invocation raises in the model.
BrokerErrors ==
    {"TokenIsExpired", "InvalidKey", "TooManyRequests", "ExpiredAndLimited",
     "Outage", "MarketClosed"}

\* The two tests of the handler and the matched kinds, computed once per
\* exception: error_str = str(e).lower(), then the two any(...).
Tests ==
    [e \in DOMAIN Message |->
        [token_error |-> IsTokenError(lower(Message[e])),
         rate_error |-> IsRateError(lower(Message[e])),
         kinds |-> KindsIn(Message[e])]]

\* The kinds of the table the text of an exception matches.
MatchedKinds(e) == Tests[e].kinds

----------------------------------------------------------------------------
\* FyersLoadBalancer

\* (now - account['last_reset']).seconds
Seconds(d) == d % SecondsPerDay

\* fyersModel.FyersModel(token=..., client_id=...): the broker-client handle.
FyersModel(token, client_id) == [client_id |-> client_id, token |-> token]

\* The dict add_account appends.
NewAccount(client_id, fyers_model, t) ==
    [client_id |-> client_id, model |-> fyers_model, calls |-> 0, last_reset |-> t]

\* Mutant of rotate: the deque is left as it is.
rotateNothing(d) == d

\* deque.rotate(-1)
rotate(d) == IF Len(d) = 0 THEN d ELSE Tail(d) \o <<Head(d)>>

\* The first loop of get_next_account: reset the counters of the accounts
\* whose window has passed.
ResetCounters(d, t) ==
    [i \in 1..Len(d) |->
        IF Seconds(t - d[i].last_reset) >= Window
        THEN [d[i] EXCEPT !.calls = 0, !.last_reset = t]
        ELSE d[i]]

\* Mutant of FindUnderLimit: the head is tested before the deque is rotated.
RECURSIVE FindUnderLimitFromHead(_, _)
FindUnderLimitFromHead(d, k) ==
    IF k = 0 THEN [found |-> FALSE, deque |-> d]
    ELSE IF d[1].calls < calls_per_minute
         THEN [found |-> TRUE, deque |-> d]
         ELSE FindUnderLimitFromHead(rotate(d), k - 1)

\* The second loop of get_next_account with k iterations left: rotate, and
\* take the head when it is under the limit.
RECURSIVE FindUnderLimit(_, _)
FindUnderLimit(d, k) ==
    IF k = 0 THEN [found |-> FALSE, deque |-> d]
    ELSE LET r == rotate(d)
         IN  IF r[1].calls < calls_per_minute
             THEN [found |-> TRUE, deque |-> r]
             ELSE FindUnderLimit(r, k - 1)

\* Mutant of get_next_account: the second loop stops one iteration early.
get_next_accountStoppingEarly(d, cur, t) ==
    IF Len(d) = 0
    THEN [raised |-> TRUE, exc |-> "NoActiveAccounts", deque |-> d,
          current |-> cur]
    ELSE LET f == FindUnderLimit(ResetCounters(d, t), Len(d) - 1)
         IN  IF f.found
             THEN [raised |-> FALSE, exc |-> "", deque |-> f.deque,
                   current |-> f.deque[1].client_id]
             ELSE [raised |-> TRUE, exc |-> "AllRateLimited",
                   deque |-> f.deque, current |-> cur]

\* get_next_account: whether it raises and with what text, the deque and
\* _current_account it leaves.
get_next_account(d, cur, t) ==
    IF Len(d) = 0
    THEN [raised |-> TRUE, exc |-> "NoActiveAccounts", deque |-> d,
          current |-> cur]
    ELSE LET f == FindUnderLimit(ResetCounters(d, t), Len(d))
         IN  IF f.found
             THEN [raised |-> FALSE, exc |-> "", deque |-> f.deque,
                   current |-> f.deque[1].client_id]
             ELSE [raised |-> TRUE, exc |-> "AllRateLimited",
                   deque |-> f.deque, current |-> cur]

\* Mutant of current_account: every read selects anew.
current_accountSelectingAnew(d, cur, t) == get_next_account(d, cur, t)

\* The property current_account: select only when no account is set.
current_account(d, cur, t) ==
    IF cur = None
    THEN get_next_account(d, cur, t)
    ELSE [raised |-> FALSE, exc |-> "", deque |-> d, current |-> cur]

\* The position in the deque of the dict a reference points to.
IndexOf(d, client_id) == CHOOSE i \in 1..Len(d) : d[i].client_id = client_id

----------------------------------------------------------------------------
\* The session file

\* Mutant of SavedSessions: each record carries the account's first token
\* instead of the token of its model.
SavedSessionsWithFirstTokens(d, t) ==
    [state |-> "written",
     sessions |-> [i \in 1..Len(d) |->
                     [account |-> [client_id |-> d[i].client_id],
                      access_token |-> <<d[i].client_id, 0>>,
                      timestamp |-> t]]]

\* _save_sessions: one record per pooled account, stamped with the time of
\* the save.
SavedSessions(d, t) ==
    [state |-> "written",
     sessions |-> [i \in 1..Len(d) |->
                     [account |-> [client_id |-> d[i].client_id],
                      access_token |-> d[i].model.token,
                      timestamp |-> t]]]

\* The file after a write that failed part-way: open(..., 'w') has emptied it.
TruncatedFile == [state |-> "truncated", sessions |-> <<>>]

\* Whether _save_sessions can build its records: every pooled client_id is
\* among the configured credentials (next(...) raises otherwise).
CanBuildSessions(d) == \A i \in 1..Len(d) : d[i].client_id \in Accounts

----------------------------------------------------------------------------
\* FyersAccount

\* A token is the pair of the client_id it was issued to and the number of
\* the login that issued it; _login_account issues the next one.
FirstToken(client_id) == <<client_id, 0>>
NextToken(token) == <<token[1], token[2] + 1>>
NoToken == <<None, None>>

\* How the re-login step of the handler can go: _login_account raises; it
\* returns and _save_sessions writes the file; or it returns and
\* _save_sessions raises while it writes the file it has opened.
LoginResults == {"saved", "login_failed", "save_failed"}

\* History records.
Invocation(a, ok, e) ==
    [ev |-> "invoke", client_id |-> a.client_id, token |-> a.model.token,
     ok |-> ok, exc |-> e, attempt |-> attempt]
Login(client_id, token, ok) ==
    [ev |-> "login", client_id |-> client_id, token |-> token, ok |-> ok,
     exc |-> "", attempt |-> attempt]

NoOutcome == [kind |-> "none", client_id |-> None, exc |-> "", account_info |-> <<>>]
\* Exception("All accounts failed or reached rate limits")
AllAccountsFailed ==
    [kind |-> "AllAccountsFailed", client_id |-> None, exc |-> "", account_info |-> <<>>]
\* Exception(f"API Error ({account['client_id']}): {str(e)}")
ApiError(client_id, e) ==
    [kind |-> "ApiError", client_id |-> client_id, exc |-> e, account_info |-> <<>>]
\* What the handler raises when it reads `account` before any assignment.
UnboundLocalError ==
    [kind |-> "UnboundLocalError", client_id |-> None, exc |-> "", account_info |-> <<>>]

\* strftime('%Y-%m-%d %H:%M:%S'): day, hour, minute, second.
strftime(t) ==
    <<t \div SecondsPerDay, (t % SecondsPerDay) \div 3600, (t % 3600) \div 60, t % 60>>

\* Mutant of AccountInfo: calls_made is the counter before the increment.
AccountInfoBeforeIncrement(a) ==
    [client_id |-> a.client_id, calls_made |-> a.calls - 1,
     last_reset |-> strftime(a.last_reset), rate_limit |-> calls_per_minute]

\* result['account_info'] (an outcome holds it in a sequence, empty when the
\* result is no dict)
AccountInfo(a) ==
    [client_id |-> a.client_id, calls_made |-> a.calls,
     last_reset |-> strftime(a.last_reset), rate_limit |-> calls_per_minute]

\* Mutant of InstallModel: the handle is replaced, the counter is kept.
InstallModelKeepingCalls(d, client_id, new_model, t) ==
    [d EXCEPT ![IndexOf(d, client_id)] =
        [@ EXCEPT !.model = new_model, !.last_reset = t]]

\* Lines 225-227: the account takes the new handle and a fresh window.
InstallModel(d, client_id, new_model, t) ==
    [d EXCEPT ![IndexOf(d, client_id)] =
        [@ EXCEPT !.model = new_model, !.calls = 0, !.last_reset = t]]

\* Mutant of RateLimitOrRaise: the final raise is missing, every failure
\* rotates.
RateLimitOrContinue(e, acct, d, cur, file, events) ==
    [exit |-> "continue", deque |-> d, current |-> None, file |-> file,
     events |-> events]

\* Mutant of RateLimitOrRaise: the final raise also forgets the current
\* account.
RateLimitOrRaiseForgettingCurrent(e, acct, d, cur, file, events) ==
    [exit |-> IF Tests[e].rate_error THEN "continue"
              ELSE IF acct = Unbound THEN "unbound" ELSE "api_error",
     deque |-> d, current |-> None, file |-> file, events |-> events]

\* Lines 233-240, reached when the token branch did not `continue`.
RateLimitOrRaise(e, acct, d, cur, file, events) ==
    IF Tests[e].rate_error
    THEN [exit |-> "continue", deque |-> d, current |-> None, file |-> file,
          events |-> events]
    ELSE [exit |-> IF acct = Unbound THEN "unbound" ELSE "api_error",
          deque |-> d, current |-> cur, file |-> file, events |-> events]

\* Mutant of Handler: an account whose re-login failed is taken out of the
\* pool.
HandlerDroppingFailed(e, acct, d, cur, file, t, lr) ==
    IF Tests[e].token_error /\ acct \in Accounts
    THEN RateLimitOrRaise(e, acct,
                          SelectSeq(d, LAMBDA a : a.client_id # acct),
                          cur, file, <<Login(acct, NoToken, FALSE)>>)
    ELSE RateLimitOrRaise(e, acct, d, cur, file, <<>>)

\* Mutant of Handler: a login that failed is tried a second time.
HandlerLoginsAgain(e, acct, d, cur, file, t, lr) ==
    IF Tests[e].token_error /\ acct \in Accounts
    THEN RateLimitOrRaise(e, acct, d, cur, file,
                          <<Login(acct, NoToken, FALSE),
                            Login(acct, NoToken, FALSE)>>)
    ELSE RateLimitOrRaise(e, acct, d, cur, file, <<>>)

\* The except block of execute_api_call (lines 216-240) for the exception e,
\* with the local `account` referring to acct, and the re-login going as lr
\* says.
Handler(e, acct, d, cur, file, t, lr) ==
    IF ~Tests[e].token_error
    THEN RateLimitOrRaise(e, acct, d, cur, file, <<>>)
    ELSE IF acct = Unbound
    THEN [exit |-> "unbound", deque |-> d, current |-> cur, file |-> file,
          events |-> <<>>]
    ELSE IF acct \notin Accounts
    THEN RateLimitOrRaise(e, acct, d, cur, file, <<>>)
    ELSE IF lr = "login_failed"
    THEN RateLimitOrRaise(e, acct, d, cur, file,
                          <<Login(acct, NoToken, FALSE)>>)
    ELSE LET old == d[IndexOf(d, acct)].model.token
             new_model == FyersModel(NextToken(old), acct)
             d1 == InstallModel(d, acct, new_model, t)
             ev == <<Login(acct, new_model.token, TRUE)>>
         IN  IF lr = "saved" /\ CanBuildSessions(d1)
             THEN [exit |-> "continue", deque |-> d1, current |-> cur,
                   file |-> SavedSessions(d1, t), events |-> ev]
             ELSE IF lr = "save_failed" /\ CanBuildSessions(d1)
             THEN RateLimitOrRaise(e, acct, d1, cur, TruncatedFile, ev)
             ELSE RateLimitOrRaise(e, acct, d1, cur, file, ev)

\* The number of re-logins that succeeded so far: every one of them issued
\* the next token of its account.
RECURSIVE LoginsDone(_)
LoginsDone(d) ==
    IF Len(d) = 0 THEN 0 ELSE Head(d).model.token[2] + LoginsDone(Tail(d))

\* The re-login outcomes the model follows for a handler run.
LoginChoices(e, acct, d) ==
    IF Tests[e].token_error /\ acct \in Accounts /\ LoginsDone(d) < MaxLogins
    THEN LoginResults
    ELSE {"login_failed"}

\* The history of servers: nothing recorded yet, and the value it takes for
\* good once a call has met an exception.
NoneServed == [clean |-> TRUE, by |-> <<>>]
NotClean == [clean |-> FALSE, by |-> <<>>]

\* Mutant of AfterHandler: `continue` retries without using up an attempt.
AfterHandlerRetrying(h, e, acct, events) ==
    /\ active_accounts' = h.deque
    /\ current' = h.current
    /\ session_file' = h.file
    /\ account' = acct
    /\ log' = log \o events \o h.events
    /\ served' = NotClean
    /\ UNCHANGED <<now, attempt, picked, elsewhere>>
    /\ IF h.exit = "continue"
       THEN pc' = "loop" /\ UNCHANGED outcome
       ELSE /\ pc' = "done"
            /\ outcome' = IF h.exit = "unbound" THEN UnboundLocalError
                          ELSE ApiError(acct, e)

\* The state after the handler ran: `continue` goes to the next iteration, or
\* past the loop to the final raise; the other exits raise.
AfterHandler(h, e, acct, events) ==
    /\ active_accounts' = h.deque
    /\ current' = h.current
    /\ session_file' = h.file
    /\ account' = acct
    /\ log' = log \o events \o h.events
    /\ served' = NotClean
    /\ UNCHANGED <<now, picked, elsewhere>>
    /\ IF h.exit = "continue"
       THEN /\ attempt' = attempt + 1
            /\ IF attempt + 1 < Len(active_accounts)
               THEN pc' = "loop" /\ UNCHANGED outcome
               ELSE pc' = "done" /\ outcome' = AllAccountsFailed
       ELSE /\ UNCHANGED attempt
            /\ pc' = "done"
            /\ outcome' = IF h.exit = "unbound" THEN UnboundLocalError
                          ELSE ApiError(acct, e)

\* The caller calls execute_api_call: the for loop starts, or, on an empty
\* pool, is skipped.
Call ==
    /\ pc \in {"idle", "done"}
    /\ attempt' = 0
    /\ account' = Unbound
    /\ log' = <<>>
    /\ IF Len(active_accounts) > 0
       THEN pc' = "loop" /\ outcome' = NoOutcome
       ELSE pc' = "done" /\ outcome' = AllAccountsFailed
    /\ UNCHANGED <<active_accounts, current, now, session_file, served, picked,
                   elsewhere>>

\* One iteration in which the invocation returns (lines 202-214).
InvocationReturns(is_dict) ==
    /\ pc = "loop"
    /\ LET s == current_account(active_accounts, current, now)
       IN  /\ ~s.raised
           /\ LET i == IndexOf(s.deque, s.current)
                  d1 == [s.deque EXCEPT ![i].calls = @ + 1]
              IN  /\ s.deque[i].calls < MaxCalls
                  /\ active_accounts' = d1
                  /\ current' = s.current
                  /\ account' = s.current
                  /\ log' = Append(log, Invocation(s.deque[i], TRUE, ""))
                  /\ outcome' = [kind |-> "result", client_id |-> s.current,
                                 exc |-> "",
                                 account_info |-> IF is_dict THEN <<AccountInfo(d1[i])>>
                                                  ELSE <<>>]
                  /\ served' = IF served.clean
                                THEN [served EXCEPT !.by = Append(@, s.current)]
                                ELSE served
    /\ pc' = "done"
    /\ UNCHANGED <<now, session_file, attempt, picked, elsewhere>>

\* One iteration in which the invocation raises e (lines 202-203, then
\* the handler).
InvocationRaises(e) ==
    /\ pc = "loop"
    /\ LET s == current_account(active_accounts, current, now)
       IN  /\ ~s.raised
           /\ \E lr \in LoginChoices(e, s.current, s.deque) :
                AfterHandler(
                    Handler(e, s.current, s.deque, s.current, session_file, now, lr),
                    e, s.current,
                    <<Invocation(s.deque[IndexOf(s.deque, s.current)], FALSE, e)>>)

\* One iteration in which current_account raises: the handler runs on the
\* e of get_next_account's exception, and `account` is what an earlier
\* iteration left.
SelectionRaises ==
    /\ pc = "loop"
    /\ LET s == current_account(active_accounts, current, now)
       IN  /\ s.raised
           /\ \E lr \in LoginChoices(s.exc, account, s.deque) :
                AfterHandler(
                    Handler(s.exc, account, s.deque, s.current, session_file, now, lr),
                    s.exc, account, <<>>)

\* Time passes: between two calls, or while a call is in its loop.
Tick(step) ==
    /\ pc # "done"
    /\ now + step <= MaxNow
    /\ now' = now + step
    /\ UNCHANGED <<active_accounts, current, session_file, pc, attempt, account,
                   log, outcome, served, picked, elsewhere>>

\* The issue times when the tokens of the pool d were all issued at t.
IssuedAt(d, t) ==
    [tok \in {d[i].model.token : i \in 1..Len(d)} |-> [at |-> t, how |-> "fresh"]]
\* Nothing was loaded yet.
NoLoad == [done |-> FALSE]
\* No thread other than the single caller.
NoCallers == <<>>

\* After construction by fresh logins: the accounts that logged in, in the
\* configured order, each with an empty window, and the sessions saved.
InitialPool(n) ==
    [i \in 1..n |-> NewAccount(i, FyersModel(FirstToken(i), i), 0)]

Init ==
    /\ \E n \in 1..NumAccounts : active_accounts = InitialPool(n)
    /\ current = None
    /\ now = 0
    /\ session_file = SavedSessions(active_accounts, 0)
    /\ pc = "idle"
    /\ attempt = 0
    /\ account = Unbound
    /\ log = <<>>
    /\ outcome = NoOutcome
    /\ served = NoneServed
    /\ picked = <<>>
    /\ issued = IssuedAt(active_accounts, 0)
    /\ loaded = NoLoad
    /\ callers = NoCallers

Next ==
    \/ Call
    \/ \E is_dict \in BOOLEAN : InvocationReturns(is_dict)
    \/ \E e \in BrokerErrors : InvocationRaises(e)
    \/ SelectionRaises
    \/ \E step \in TickSteps : Tick(step)

Spec == Init /\ [][Next]_vars

----------------------------------------------------------------------------
\* Reading the history of the current call.

\* The kinds the specification recovers by a re-login, and by rotation.
AuthKinds == {"expired_token", "invalid_token", "token_mismatch", "invalid_key"}
RotationKinds == {"rate_limit", "too_many_requests"}

Done == pc = "done"
Failed == Done /\ outcome.kind # "result"

IsInvoke(i) == log[i].ev = "invoke"
IsLogin(i) == log[i].ev = "login"
FailedInvoke(i) == IsInvoke(i) /\ ~log[i].ok
KindsAt(i) == MatchedKinds(log[i].exc)

\* The invocation at i failed with a text that matches a rate-limit entry and
\* no other entry of the table.
RateLimitedAt(i) ==
    FailedInvoke(i) /\ KindsAt(i) # {} /\ KindsAt(i) \subseteq RotationKinds
\* The invocation at i failed with a text that matches an auth entry.
AuthFailedAt(i) == FailedInvoke(i) /\ KindsAt(i) \cap AuthKinds # {}
\* The invocation at i failed with a text that matches no auth and no
\* rate-limit entry.
OtherFailedAt(i) ==
    FailedInvoke(i) /\ KindsAt(i) \cap (AuthKinds \cup RotationKinds) = {}

\* j is the first invocation after i.
NextInvoke(i, j) ==
    /\ i < j /\ IsInvoke(j)
    /\ \A k \in (i + 1)..(j - 1) : ~IsInvoke(k)

PoolIds == {active_accounts[i].client_id : i \in 1..Len(active_accounts)}

----------------------------------------------------------------------------
\* C1: in every reachable state no pooled account's call_count exceeds the
\* configured limit.
C1_CallCountWithinLimit ==
    \A i \in 1..Len(active_accounts) :
        active_accounts[i].calls <= calls_per_minute

\* C2: when a call ends with an error that stems from auth or rate-limit
\* failures, every account of the pool has been invoked, and has failed,
\* during that call.
C2_FailsOnlyAfterAllTried ==
    ( /\ Failed
      /\ \/ outcome.kind = "AllAccountsFailed"
         \/ /\ outcome.kind = "ApiError"
            /\ MatchedKinds(outcome.exc) \cap (AuthKinds \cup RotationKinds) # {} )
    => \A c \in PoolIds :
          \E i \in 1..Len(log) : FailedInvoke(i) /\ log[i].client_id = c

\* C3: a re-login that succeeded is followed, before the call ends, by an
\* invocation on the same account with the new handle.
C3_ReloginIsRetried ==
    Done =>
        \A i \in 1..Len(log) :
            (IsLogin(i) /\ log[i].ok) =>
                \E j \in (i + 1)..Len(log) :
                    /\ IsInvoke(j)
                    /\ log[j].client_id = log[i].client_id
                    /\ log[j].token = log[i].token

\* C4: when the re-login of an account fails and rotation attempts are left,
\* the call goes on to its next attempt instead of ending.
C4_LoginFailureMovesOn ==
    ( /\ log # <<>>
      /\ IsLogin(Len(log)) /\ ~log[Len(log)].ok
      /\ log[Len(log)].attempt + 1 < Len(active_accounts) )
    => pc = "loop"

\* C5: before a call returns an error, every failed invocation whose text
\* matches an auth kind (AuthExpired, AuthInvalid, TokenMismatch, InvalidKey)
\* has been followed by a login attempt for that account.
C5_AuthFailureAttemptsLogin ==
    Failed =>
        \A i \in 1..Len(log) :
            AuthFailedAt(i) =>
                /\ i < Len(log)
                /\ IsLogin(i + 1)
                /\ log[i + 1].client_id = log[i].client_id

----------------------------------------------------------------------------
\* C6 as stated: in a pool of two or more accounts, a rate-limit failure on
\* account X clears the sticky pointer, and the next invocation of the same
\* call goes to an account other than X.
C6_NextInvocationElsewhere ==
    Len(active_accounts) >= 2 =>
        /\ (log # <<>> /\ RateLimitedAt(Len(log))) => current = None
        /\ \A i, j \in 1..Len(log) :
              (RateLimitedAt(i) /\ NextInvoke(i, j)) =>
                  log[j].client_id # log[i].client_id

\* Some account other than x is under the limit once get_next_account has
\* reset the counters.
OtherUnderLimit(x) ==
    \E k \in 1..Len(active_accounts) :
        /\ active_accounts[k].client_id # x
        /\ ResetCounters(active_accounts, now)[k].calls < calls_per_minute

\* A step taken right after a rate-limit failure on X, with attempts left.
C6_Step ==
    ( /\ Len(active_accounts) >= 2
      /\ pc = "loop"
      /\ log # <<>>
      /\ RateLimitedAt(Len(log)) )
    => /\ current = None
       /\ ( /\ Len(log') > Len(log)
            /\ OtherUnderLimit(log[Len(log)].client_id) )
          => log'[Len(log) + 1].client_id # log[Len(log)].client_id

\* C6, amended: in a pool of two or more accounts, a rate-limit failure on
\* account X clears the sticky pointer, and the next invocation of the same
\* call goes to an account other than X whenever, at that selection, some
\* other account is under its limit.
C6_NextInvocationElsewhereIfEligible == [][C6_Step]_vars

\* A rate-limit failure on one account followed by an invocation on another.
C6_Witness ==
    /\ Len(active_accounts) >= 2
    /\ \E i, j \in 1..Len(log) :
          /\ RateLimitedAt(i) /\ NextInvoke(i, j)
          /\ log[j].client_id # log[i].client_id

\* C7: an invocation that fails with a kind that is neither an auth kind nor
\* a rate-limit kind ends the call at once, with an error that carries the
\* client_id of the account the invocation ran on: nothing follows it in the
\* history of the call.
C7_OtherFailureRaisesAtOnce ==
    \A i \in 1..Len(log) :
        OtherFailedAt(i) =>
            /\ i = Len(log)
            /\ Done
            /\ outcome.kind = "ApiError"
            /\ outcome.client_id = log[i].client_id
            /\ outcome.exc = log[i].exc

\* A call that rotated once and then ended on an unmatched failure.
C7_Witness ==
    /\ Done
    /\ Len(log) >= 2
    /\ OtherFailedAt(Len(log))
    /\ log[Len(log)].exc = "Outage"
    /\ outcome.client_id = log[Len(log)].client_id

\* C8: a call makes at most len(pool) rotation attempts, and so at most
\* len(pool) invocations; when all attempts are used up it ends with
\* "All accounts failed or reached rate limits".
C8_AtMostLenPoolAttempts ==
    /\ attempt <= Len(active_accounts)
    /\ pc = "loop" => attempt < Len(active_accounts)
    /\ Cardinality({i \in 1..Len(log) : IsInvoke(i)}) <= Len(active_accounts)
    /\ (Done /\ attempt = Len(active_accounts)) => outcome = AllAccountsFailed
    /\ (Done /\ outcome = AllAccountsFailed) => attempt = Len(active_accounts)

\* A call on two or more accounts that used up all its attempts.
C8_Witness ==
    /\ Done
    /\ Len(active_accounts) >= 2
    /\ attempt = Len(active_accounts)
    /\ outcome = AllAccountsFailed
    /\ Cardinality({i \in 1..Len(log) : IsInvoke(i)}) = Len(active_accounts)

\* C9: every error a call returns is one of the taxonomy errors, also when
\* the selection of an account fails inside the call.
C9_ErrorsAreTaxonomyErrors ==
    Failed => outcome.kind \in {"ApiError", "AllAccountsFailed"}

\* C10: a failure whose text matches rate-limit entries only triggers no
\* login attempt: no login is made in its attempt, and a later login follows
\* a later invocation.
C10_RateLimitNeverLogsIn ==
    \A i \in 1..Len(log) :
        RateLimitedAt(i) =>
            /\ \A j \in (i + 1)..Len(log) :
                  IsLogin(j) => \E k \in (i + 1)..(j - 1) : IsInvoke(k)
            /\ \A j \in 1..Len(log) :
                  IsLogin(j) => log[j].attempt # log[i].attempt

\* A rate-limit failure after which the call went on.
C10_Witness ==
    \E i \in 1..Len(log) :
        /\ RateLimitedAt(i)
        /\ log[i].exc = "TooManyRequests"
        /\ i < Len(log)

TokenFailedAt(i) == FailedInvoke(i) /\ KindsAt(i) \cap TokenKinds # {}
LoginsOfCall == {i \in 1..Len(log) : IsLogin(i)}
TokenFailuresOfCall == {i \in 1..Len(log) : TokenFailedAt(i)}

\* C12: within one call every login follows a token failure of its own
\* attempt, no attempt has two logins, and the logins number at most the
\* token failures and at most the accounts of the pool.
C12_OneLoginPerTokenFailure ==
    /\ \A j \in LoginsOfCall :
          /\ \E i \in TokenFailuresOfCall :
                i < j /\ log[i].attempt = log[j].attempt
          /\ \A k \in LoginsOfCall : log[k].attempt = log[j].attempt => k = j
    /\ Cardinality(LoginsOfCall) <= Cardinality(TokenFailuresOfCall)
    /\ Cardinality(LoginsOfCall) <= Len(active_accounts)

\* A call with as many logins as the pool has accounts.
C12_Witness ==
    /\ Done
    /\ Len(active_accounts) >= 2
    /\ Cardinality(LoginsOfCall) = Len(active_accounts)

\* The step is an iteration whose handler made a login that succeeded.
ReloginSucceeds ==
    /\ Len(log') > Len(log)
    /\ log'[Len(log')].ev = "login"
    /\ log'[Len(log')].ok

\* C13: right after a re-login of X succeeded, X holds the handle with the
\* new token, a counter of 0 and a window that starts at the time of the
\* re-login; every other account is as the selection of that iteration left
\* it, and the pool has the same order.
C13_Step ==
    ReloginSucceeds =>
        LET s == current_account(active_accounts, current, now)
            x == log'[Len(log')].client_id
        IN  /\ Len(active_accounts') = Len(s.deque)
            /\ \A k \in 1..Len(s.deque) :
                  IF s.deque[k].client_id = x
                  THEN /\ active_accounts'[k].client_id = x
                       /\ active_accounts'[k].model.token = log'[Len(log')].token
                       /\ active_accounts'[k].model.token # s.deque[k].model.token
                       /\ active_accounts'[k].calls = 0
                       /\ active_accounts'[k].last_reset = now'
                  ELSE active_accounts'[k] = s.deque[k]
C13_ReloginReplacesOneAccount == [][C13_Step]_vars

\* A re-login has just succeeded, in a pool where another account has calls
\* counted.
C13_Witness ==
    /\ Len(log) > 0
    /\ IsLogin(Len(log))
    /\ log[Len(log)].ok
    /\ \E k \in 1..Len(active_accounts) :
          /\ active_accounts[k].client_id # log[Len(log)].client_id
          /\ active_accounts[k].calls > 0

\* The step is the iteration in which the invocation returns.
CallSucceeds == pc = "loop" /\ pc' = "done" /\ outcome'.kind = "result"

\* The metadata of the result, when there is one, describes the account a as
\* it is after the call.
InfoDescribes(info, a) ==
    info # <<>> =>
        /\ info[1].client_id = a.client_id
        /\ info[1].calls_made = a.calls
        /\ info[1].last_reset = strftime(a.last_reset)
        /\ info[1].rate_limit = calls_per_minute

\* The pool `after` is the pool `before` with one call more on x: one
\* account has the id x, and every counter but its own is the same.
CountsOneCallOn(x, before, after) ==
    /\ Cardinality({k \in 1..Len(after) : after[k].client_id = x}) = 1
    /\ \A k \in 1..Len(after) : \E j \in 1..Len(before) :
          /\ before[j].client_id = after[k].client_id
          /\ after[k].calls = before[j].calls
                              + (IF after[k].client_id = x THEN 1 ELSE 0)

\* C14, as stated, on the calls that succeed in their first iteration, where
\* the pool before the iteration is the pool before the call: the call
\* counts exactly one call, on the account that served, and leaves every
\* other counter as it was before the call.
C14_FirstStep ==
    (CallSucceeds /\ log = <<>>) =>
        /\ CountsOneCallOn(outcome'.client_id, active_accounts, active_accounts')
        /\ InfoDescribes(outcome'.account_info,
                         active_accounts'[IndexOf(active_accounts',
                                                  outcome'.client_id)])
C14_CountsOneCall == [][C14_FirstStep]_vars

\* C14, amended: the iteration in which the invocation returns counts
\* exactly one call, on the account whose handle served, over the counters
\* its selection left (the selection resets the counters of elapsed
\* windows); the metadata names that account's client_id, its counter after
\* the increment, its window start to the second, and the limit.
C14_Step ==
    CallSucceeds =>
        LET s == current_account(active_accounts, current, now)
            x == outcome'.client_id
            ev == log'[Len(log')]
            a == active_accounts'[IndexOf(active_accounts', x)]
        IN  /\ ev.ev = "invoke" /\ ev.ok /\ ev.client_id = x
            /\ ev.token = a.model.token
            /\ CountsOneCallOn(x, s.deque, active_accounts')
            /\ InfoDescribes(outcome'.account_info, a)
C14_CountsOneCallAfterSelection == [][C14_Step]_vars

\* A call has succeeded with metadata on an account whose window its
\* selection started anew, in a pool of two.
C14_Witness ==
    /\ Done
    /\ outcome.kind = "result"
    /\ outcome.account_info # <<>>
    /\ Len(active_accounts) >= 2
    /\ now >= Window
    /\ active_accounts[IndexOf(active_accounts, outcome.client_id)].last_reset = now

\* C15: from the fresh pool [A, B] with a limit of 1, while every invocation
\* has succeeded and the first window lasts, the calls are served by A, B
\* and A, in that order.
C15_ServedInTurn ==
    LET A == InitialPool(2)[1].client_id
        B == InitialPool(2)[2].client_id
        turn == <<A, B, A>>
    IN  (served.clean /\ Len(active_accounts) = 2 /\ calls_per_minute = 1
         /\ now < Window) =>
            \A k \in 1..Len(served.by) : k <= Len(turn) => served.by[k] = turn[k]

\* C18: when a call has been counted on an account, less than a window has
\* passed since that account's window started (the clock stands still from
\* the counting to the end of the call).
C18_CountedInCurrentWindow ==
    (Done /\ outcome.kind = "result") =>
        now - active_accounts[IndexOf(active_accounts, outcome.client_id)].last_reset
            < Window

\* The step is one iteration of the loop of a call.
Iteration == pc = "loop" /\ now' = now

\* The client_ids of the pool, in its order.
Order(d) == [k \in 1..Len(d) |-> d[k].client_id]

\* C20: an iteration that finds an account set invokes on that account and
\* selects nothing (the pool keeps its order); an iteration that finds none
\* set invokes on the account get_next_account returns; a call that succeeds
\* leaves the account that served it set. Hence the calls made while every
\* invocation succeeded were all served by one account.
C20_Step ==
    Iteration =>
        /\ current # None =>
              /\ Len(log') > Len(log)
              /\ log'[Len(log) + 1].ev = "invoke"
              /\ log'[Len(log) + 1].client_id = current
              /\ Order(active_accounts') = Order(active_accounts)
        /\ (current = None /\ Len(log') > Len(log)) =>
              /\ log'[Len(log) + 1].ev = "invoke"
              /\ log'[Len(log) + 1].client_id
                    = get_next_account(active_accounts, current, now).current
        /\ CallSucceeds => current' = log'[Len(log')].client_id
C20_CurrentIsSticky ==
    /\ [][C20_Step]_vars
    /\ [](served.clean =>
            \A i, j \in 1..Len(served.by) : served.by[i] = served.by[j])

\* Two calls in a row have succeeded in a pool of two accounts.
C20_Witness ==
    /\ Done
    /\ served.clean
    /\ Len(served.by) >= 2
    /\ Len(active_accounts) >= 2

----------------------------------------------------------------------------
\* The balancer on its own: get_next_account called directly on the pool.

\* The seconds the clock of this specification visits: both sides of the
\* end of a window, and the same one day later.
BalancerTimes ==
    {0, Window - 1, Window, SecondsPerDay, SecondsPerDay + Window - 1,
     SecondsPerDay + Window}

\* A call of get_next_account (lines 46-65). The history keeps the pool
\* before the call, the time, what the call returned or raised, and the pool
\* after it.
Select ==
    /\ Len(picked) <= Len(active_accounts)
    /\ LET s == get_next_account(active_accounts, current, now)
       IN  /\ active_accounts' = s.deque
           /\ current' = s.current
           /\ picked' = Append(picked,
                               [before |-> active_accounts, at |-> now,
                                raised |-> s.raised, exc |-> s.exc,
                                client_id |-> IF s.raised THEN None
                                              ELSE s.current,
                                after |-> s.deque])
    /\ UNCHANGED <<now, session_file, pc, attempt, account, log, outcome, served,
                   elsewhere>>

\* The caller counts a call on the account it was given (line 204).
Count ==
    /\ current # None
    /\ LET i == IndexOf(active_accounts, current)
       IN  /\ active_accounts[i].calls < MaxCalls
           /\ active_accounts' = [active_accounts EXCEPT ![i].calls = @ + 1]
    /\ picked' = <<>>
    /\ UNCHANGED <<current, now, session_file, pc, attempt, account, log,
                   outcome, served, elsewhere>>

\* Time passes.
Advance(t) ==
    /\ t > now
    /\ now' = t
    /\ picked' = <<>>
    /\ UNCHANGED <<active_accounts, current, session_file, pc, attempt, account,
                   log, outcome, served, elsewhere>>

BalancerNext ==
    \/ Select
    \/ Count
    \/ \E t \in BalancerTimes : Advance(t)

BalancerSpec == Init /\ [][BalancerNext]_vars

\* No account of the pool d is at its limit.
NoneAtLimit(d) == \A k \in 1..Len(d) : d[k].calls < calls_per_minute

\* C16: in a row of get_next_account calls that starts with no account at
\* its limit and has no counter change in between, any two calls less than
\* len(pool) apart return different accounts: N calls return N accounts.
C16_RoundRobin ==
    \A i, j \in 1..Len(picked) :
        (/\ i < j
         /\ j - i < Len(active_accounts)
         /\ NoneAtLimit(picked[i].after)) =>
            /\ ~picked[i].raised
            /\ ~picked[j].raised
            /\ picked[i].client_id # picked[j].client_id

\* A full round and one call more, in a pool of two with none at its limit.
C16_Witness ==
    /\ Len(active_accounts) >= 2
    /\ Len(picked) = Len(active_accounts) + 1
    /\ NoneAtLimit(picked[1].after)
    /\ picked[1].client_id = picked[Len(picked)].client_id

\* C17: a call of get_next_account leaves every account whose window
\* started 60 seconds ago or more, however long ago, with a counter of 0
\* and a window that starts now.
C17_ElapsedWindowsAreReset ==
    \A i \in 1..Len(picked) :
        LET p == picked[i]
        IN  \A j \in 1..Len(p.before) :
                p.at - p.before[j].last_reset >= Window =>
                    \E k \in 1..Len(p.after) :
                        /\ p.after[k].client_id = p.before[j].client_id
                        /\ p.after[k].calls = 0
                        /\ p.after[k].last_reset = p.at

\* C19: on a non-empty pool get_next_account raises, and its "all accounts
\* have reached rate limit", exactly when after its resets every account is
\* at its limit; otherwise it returns a pooled account under its limit.
C19_RaisesIffAllAtLimit ==
    \A i \in 1..Len(picked) :
        LET p == picked[i]
        IN  Len(p.before) > 0 =>
                /\ p.raised <=>
                      \A k \in 1..Len(p.after) :
                          p.after[k].calls >= calls_per_minute
                /\ p.raised => p.exc = "AllRateLimited"
                /\ ~p.raised =>
                      \E k \in 1..Len(p.after) :
                          /\ p.after[k].client_id = p.client_id
                          /\ p.after[k].calls < calls_per_minute

\* get_next_account has raised on a pool of two accounts, one of them
\* beyond its limit.
C19_Witness ==
    /\ Len(active_accounts) >= 2
    /\ \E i \in 1..Len(picked) :
          /\ picked[i].raised
          /\ \E k \in 1..Len(picked[i].after) :
                picked[i].after[k].calls > calls_per_minute

\* The store holds a record with the token tok.
StoreHolds(tok) ==
    \E k \in 1..Len(session_file.sessions) :
        session_file.sessions[k].access_token = tok

\* C22: the token of an invocation that failed with a token error is used
\* for no later invocation, and no later save writes it: once a token issued
\* after the failure is in the store, the failed token is not.
C22_FailedSessionIsDropped ==
    \A i \in 1..Len(log) :
        TokenFailedAt(i) =>
            /\ \A j \in (i + 1)..Len(log) :
                  IsInvoke(j) => log[j].token # log[i].token
            /\ (\E j \in (i + 1)..Len(log) :
                    IsLogin(j) /\ log[j].ok /\ StoreHolds(log[j].token))
                  => ~StoreHolds(log[i].token)

\* C30: a failed invocation is handled as the kind of the table its text
\* contains, case ignored: an auth kind by a login for the account, a
\* rate-limit kind by going on without a login, and a text with another
\* kind or with none by raising at once with the text, without retry.
C30_HandledAsItsKind ==
    \A i \in 1..Len(log) :
        /\ AuthFailedAt(i) =>
              /\ i < Len(log)
              /\ IsLogin(i + 1)
              /\ log[i + 1].client_id = log[i].client_id
        /\ RateLimitedAt(i) =>
              /\ i < Len(log) => ~IsLogin(i + 1)
              /\ Done => outcome # ApiError(log[i].client_id, log[i].exc)
        /\ OtherFailedAt(i) =>
              /\ i = Len(log)
              /\ Done
              /\ outcome = ApiError(log[i].client_id, log[i].exc)

----------------------------------------------------------------------------
\* The session file across runs of the process: construction with
\* _load_sessions, the logins and _save_sessions; the re-login of the handler
\* with its save; and the end of the process.

\* 24 * 3600, the age up to which _load_sessions takes a record.
SessionLifetime == 24 * 3600

\* The seconds the clock of this specification visits: an hour before 24
\* hours, both sides of 24 hours, and an hour after.
StoreTimes ==
    {0, SessionLifetime - 3600, SessionLifetime - 1, SessionLifetime,
     SessionLifetime + 3600}

\* The timestamp 0 that session.get('timestamp', 0) falls back to is the
\* start of the Unix epoch, long before second 0 of the model's clock.
EpochStart == 0 - 2 * SessionLifetime

\* The file does not exist.
MissingFile == [state |-> "missing", sessions |-> <<>>]

\* An entry of data['sessions'] is a record of its JSON fields; an entry that
\* is no JSON object (a string, a number, null) is [scalar |-> ...].
Has(r, field) == field \in DOMAIN r
IsDict(r) == ~Has(r, "scalar")

\* The record _save_sessions writes at second 0 for account c with its first
\* token, the one it wrote an hour before, and entries that are not such
\* records.
Good(c) ==
    [account |-> [client_id |-> c], access_token |-> FirstToken(c),
     timestamp |-> 0]
Older(c) == [Good(c) EXCEPT !.timestamp = 0 - 3600]
WithoutTimestamp(c) ==
    [account |-> [client_id |-> c], access_token |-> FirstToken(c)]
WithoutToken(c) == [account |-> [client_id |-> c], timestamp |-> 0]
WithoutAccount(c) == [access_token |-> FirstToken(c), timestamp |-> 0]
WithoutClientId(c) ==
    [account |-> [secret_key |-> c], access_token |-> FirstToken(c),
     timestamp |-> 0]
NotARecord == [scalar |-> "garbage"]

\* session.get('timestamp', 0)
TimestampOf(r) == IF Has(r, "timestamp") THEN r.timestamp ELSE EpochStart

\* session['account']['client_id'] can be read.
HasClientId(r) == Has(r, "account") /\ Has(r.account, "client_id")

\* The loop of _load_sessions (lines 162-174) over the entries left, at time
\* t, with the accounts added so far. An entry that is no dict makes .get
\* raise; an entry without account or client_id makes the print of the inner
\* handler raise: both leave the loop for the outer handler (aborted).
RECURSIVE LoadFrom(_, _, _)
LoadFrom(entries, t, added) ==
    IF entries = <<>> THEN [aborted |-> FALSE, added |-> added]
    ELSE LET r == Head(entries)
         IN  IF ~IsDict(r) THEN [aborted |-> TRUE, added |-> added]
             ELSE IF ~(t - TimestampOf(r) < SessionLifetime)
             THEN LoadFrom(Tail(entries), t, added)
             ELSE IF ~HasClientId(r) THEN [aborted |-> TRUE, added |-> added]
             ELSE IF ~Has(r, "access_token")
             THEN LoadFrom(Tail(entries), t, added)
             ELSE LoadFrom(Tail(entries), t,
                           Append(added,
                                  NewAccount(r.account.client_id,
                                             FyersModel(r.access_token,
                                                        r.account.client_id),
                                             t)))

\* _load_sessions at time t: what it returns and the accounts it added to
\* the balancer. A missing file returns False; a truncated file makes
\* json.load raise, which the outer handler turns into False.
LoadSessions(file, t) ==
    IF file.state # "written" THEN [ok |-> FALSE, added |-> <<>>]
    ELSE LET l == LoadFrom(file.sessions, t, <<>>)
         IN  [ok |-> ~l.aborted /\ Len(l.added) > 0, added |-> l.added]

\* The credentials of self.accounts, in their order.
ConfiguredOrder == [i \in 1..NumAccounts |-> i]

\* The token a fresh login issues to client_id: one no login issued before.
FreshToken(client_id) ==
    <<client_id, Cardinality({tok \in DOMAIN issued : tok[1] = client_id})>>

\* The loop of _initialize_accounts (lines 88-94): the accounts whose login
\* succeeds (those of S) are added in the configured order.
FreshAccounts(S, t) ==
    LET ids == SelectSeq(ConfiguredOrder, LAMBDA c : c \in S)
    IN  [i \in 1..Len(ids) |->
            NewAccount(ids[i], FyersModel(FreshToken(ids[i]), ids[i]), t)]

\* The history of tokens after a login issued the new tokens at t. The
\* tokens of a constructor that raised are lost with it and not recorded.
Issue(history, tokens, t, how) ==
    [tok \in DOMAIN history \cup tokens |->
        IF tok \in DOMAIN history THEN history[tok]
        ELSE [at |-> t, how |-> how]]

\* How _save_sessions can go: it writes the file; json.dump raises after
\* open(..., 'w') emptied the file; open raises and the file stays.
SaveResults == {"saved", "save_failed", "open_failed"}

\* What a construction leaves in `outcome`.
Constructed ==
    [kind |-> "constructed", client_id |-> None, exc |-> "", account_info |-> <<>>]
NoAccountsInitialized ==
    [kind |-> "NoAccountsInitialized", client_id |-> None, exc |-> "",
     account_info |-> <<>>]
SaveRaised ==
    [kind |-> "SaveRaised", client_id |-> None, exc |-> "", account_info |-> <<>>]

\* Mutant of StartsWith: the constructor starts with whatever pool it has.
StartsWithAnyPool(pool) == TRUE

\* The test of line 95: the constructor goes on when the pool is not empty.
StartsWith(pool) == Len(pool) > 0

\* FyersAccount(accounts_config): _initialize_accounts (lines 82-98). The
\* logins of the accounts in S succeed, and the save goes as io says.
Construct(S, io) ==
    /\ pc = "down"
    /\ LET l == LoadSessions(session_file, now)
           pool == l.added \o FreshAccounts(S, now)
       IN  /\ loaded' = [done |-> TRUE, at |-> now, file |-> session_file,
                         ok |-> l.ok, added |-> l.added]
           /\ IF l.ok
              THEN /\ S = {} /\ io = "saved"
                   /\ active_accounts' = l.added
                   /\ pc' = "idle"
                   /\ outcome' = Constructed
                   /\ UNCHANGED <<session_file, issued>>
              ELSE /\ \A c \in S : FreshToken(c)[2] <= MaxLogins
                   /\ IF ~StartsWith(pool)
                      THEN /\ io = "saved"
                           /\ outcome' = NoAccountsInitialized
                           /\ UNCHANGED <<active_accounts, pc, session_file, issued>>
                      ELSE IF io = "saved" /\ CanBuildSessions(pool)
                      THEN /\ active_accounts' = pool
                           /\ pc' = "idle"
                           /\ session_file' = SavedSessions(pool, now)
                           /\ outcome' = Constructed
                           /\ issued' = Issue(issued, {FreshToken(c) : c \in S},
                                              now, "fresh")
                      ELSE /\ outcome' = SaveRaised
                           /\ session_file' = IF io = "save_failed"
                                              THEN TruncatedFile ELSE session_file
                           /\ UNCHANGED <<active_accounts, pc, issued>>
    /\ UNCHANGED <<current, now, attempt, account, log, served, picked, callers>>

\* A call of execute_api_call in the running process whose invocation, on the
\* current account x (line 202), fails with an expired token: the re-login
\* step of the handler (lines 222-229), the login succeeding and the save
\* going as lr says.
Relogin(x, lr) ==
    /\ pc = "idle"
    /\ LET s == current_account(active_accounts, current, now)
       IN  /\ ~s.raised
           /\ s.current = x
           /\ LET old == s.deque[IndexOf(s.deque, x)].model.token
                  h == Handler("TokenIsExpired", x, s.deque, x, session_file,
                               now, lr)
              IN  /\ NextToken(old) \notin DOMAIN issued
                  /\ Cardinality({tok \in DOMAIN issued :
                                     issued[tok].how # "fresh"}) < MaxLogins
                  /\ active_accounts' = h.deque
                  /\ current' = h.current
                  /\ session_file' = h.file
                  /\ log' = h.events
                  /\ outcome' = IF h.exit = "continue" THEN NoOutcome
                                ELSE ApiError(x, "TokenIsExpired")
                  /\ issued' = Issue(issued, {NextToken(old)}, now,
                                     IF h.exit = "continue" THEN "relogin_saved"
                                     ELSE "relogin_unsaved")
    /\ UNCHANGED <<now, pc, attempt, account, served, picked, loaded, callers>>

\* The process ends.
Kill ==
    /\ pc = "idle"
    /\ pc' = "down"
    /\ active_accounts' = <<>>
    /\ current' = None
    /\ log' = <<>>
    /\ outcome' = NoOutcome
    /\ loaded' = NoLoad
    /\ UNCHANGED <<now, session_file, attempt, account, served, picked, issued,
                   callers>>

\* The entries a store can hold for account c, and the stores the first run
\* can find: none, an empty file, a file of one entry, and a file with an
\* entry between the records of the first and the last account.
Entries(c) ==
    {Good(c), Older(c), WithoutTimestamp(c), WithoutToken(c), WithoutAccount(c),
     WithoutClientId(c), NotARecord}
StoreContents ==
    {<<>>} \cup {<<a>> : a \in Entries(1)}
           \cup {<<Good(1), a, Good(NumAccounts)>> : a \in Entries(1) \ {Good(1)}}
InitialStores ==
    {MissingFile, TruncatedFile}
        \cup {[state |-> "written", sessions |-> s] : s \in StoreContents}

\* The tokens of the first store: each was issued when the newest record
\* that holds it was written (at second 0 when no record of it has a time).
IssuedBefore(file) ==
    LET with == {j \in 1..Len(file.sessions) :
                    Has(file.sessions[j], "access_token")}
        stamps(tok) == {file.sessions[j].timestamp :
                          j \in {i \in with :
                                   /\ file.sessions[i].access_token = tok
                                   /\ Has(file.sessions[i], "timestamp")}}
    IN  [tok \in {file.sessions[k].access_token : k \in with} |->
            [at |-> IF stamps(tok) = {} THEN 0
                    ELSE CHOOSE t \in stamps(tok) : \A u \in stamps(tok) : u <= t,
             how |-> "fresh"]]

StoreInit ==
    /\ session_file \in InitialStores
    /\ issued = IssuedBefore(session_file)
    /\ active_accounts = <<>>
    /\ current = None
    /\ now = 0
    /\ pc = "down"
    /\ attempt = 0
    /\ account = Unbound
    /\ log = <<>>
    /\ outcome = NoOutcome
    /\ served = NoneServed
    /\ picked = <<>>
    /\ loaded = NoLoad
    /\ callers = NoCallers

StoreNext ==
    \/ \E k \in 1..(NumAccounts + 1), io \in SaveResults :
          Construct(k..NumAccounts, io)
    \/ \E x \in Accounts, lr \in SaveResults : Relogin(x, lr)
    \/ Kill
    \/ \E t \in StoreTimes : Advance(t)

StoreSpec == StoreInit /\ [][StoreNext]_vars

\* C21: a load restores a token into the pool only while less than 24 hours
\* have passed since the login that issued it.
C21_RestoredWithinLifetime ==
    loaded.done =>
        \A k \in 1..Len(loaded.added) :
            loaded.at - issued[loaded.added[k].model.token].at < SessionLifetime

\* An entry is a complete record: an object with account.client_id,
\* access_token and timestamp.
WellFormed(r) ==
    /\ IsDict(r)
    /\ HasClientId(r)
    /\ Has(r, "access_token")
    /\ Has(r, "timestamp")

\* The complete records of a store that are less than 24 hours old at t.
ValidRecords(file, t) ==
    SelectSeq(file.sessions,
              LAMBDA r : WellFormed(r) /\ t - r.timestamp < SessionLifetime)

\* The client_id and the token of each account of a pool, in its order.
Bindings(d) ==
    [k \in 1..Len(d) |-> <<d[k].client_id, d[k].model.token>>]

\* C23: a load restores exactly the stored records less than 24 hours old,
\* in stored order; with no store file it restores nothing and the
\* constructor goes on to the logins.
C23_LoadsExactlyTheValidRecords ==
    loaded.done =>
        /\ loaded.file.state = "missing" => (~loaded.ok /\ loaded.added = <<>>)
        /\ loaded.file.state = "written" =>
              LET valid == ValidRecords(loaded.file, loaded.at)
              IN  Bindings(loaded.added)
                    = [k \in 1..Len(valid) |->
                         <<valid[k].account.client_id, valid[k].access_token>>]

\* C24: an entry that is no complete record is skipped by itself: every
\* complete record less than 24 hours old, before or after it, is restored,
\* and the load reports success when there is at least one.
C24_MalformedSkippedAlone ==
    (loaded.done /\ loaded.file.state = "written") =>
        LET valid == ValidRecords(loaded.file, loaded.at)
        IN  /\ \A k \in 1..Len(valid) :
                  \E j \in 1..Len(loaded.added) :
                      /\ loaded.added[j].client_id = valid[k].account.client_id
                      /\ loaded.added[j].model.token = valid[k].access_token
            /\ Len(valid) > 0 => loaded.ok

\* A step that wrote the store.
Saves ==
    /\ session_file' # session_file
    /\ session_file'.state = "written"

\* The store holds one record per pooled account of d, in the order of the
\* pool, each with the account's client_id and the token of its model.
HoldsPool(file, d) ==
    /\ file.state = "written"
    /\ Len(file.sessions) = Len(d)
    /\ \A k \in 1..Len(d) :
          /\ WellFormed(file.sessions[k])
          /\ file.sessions[k].account.client_id = d[k].client_id
          /\ file.sessions[k].access_token = d[k].model.token

C25_Step ==
    Saves =>
        /\ HoldsPool(session_file', active_accounts')
        /\ \A t \in StoreTimes :
              (now' <= t /\ t - now' < SessionLifetime) =>
                  LET l == LoadSessions(session_file', t)
                  IN  /\ l.ok
                      /\ Bindings(l.added) = Bindings(active_accounts')

\* C25: after a save the store holds one record per pooled account with its
\* client_id and its current token, and a load less than 24 hours later
\* rebuilds a pool of the same client_ids bound to the same tokens.
C25_SaveLoadRoundTrip == [][C25_Step]_vars

\* A process found, some time after the save, the sessions a running process
\* had saved for all its accounts, and restored them.
C25_Witness ==
    /\ loaded.done
    /\ loaded.ok
    /\ Len(loaded.added) = NumAccounts
    /\ \A k \in 1..Len(loaded.file.sessions) :
          /\ WellFormed(loaded.file.sessions[k])
          /\ 0 < loaded.file.sessions[k].timestamp
          /\ loaded.file.sessions[k].timestamp < loaded.at
    /\ Bindings(active_accounts) = Bindings(loaded.added)

\* The token was replaced by a re-login of the running process.
ReplacedByRelogin(tok) ==
    /\ NextToken(tok) \in DOMAIN issued
    /\ issued[NextToken(tok)].how # "fresh"

\* A step in which a re-login succeeded, and the token it issued.
Relogs ==
    /\ Len(log') > 0
    /\ log'[Len(log')].ev = "login"
    /\ log'[Len(log')].ok
    /\ issued' # issued
ReloginToken == log'[Len(log')].token

\* A step in which a starting process loaded the store.
Loads ==
    /\ loaded' # loaded
    /\ loaded'.done

\* C26: after a successful re-login the store holds the new token,
\* and a restart never restores a token that a re-login replaced.
C26_RestartRestoresNewToken ==
    /\ [][Relogs => \E k \in 1..Len(session_file'.sessions) :
                       /\ Has(session_file'.sessions[k], "access_token")
                       /\ session_file'.sessions[k].access_token = ReloginToken]_vars
    /\ [][Loads => \A k \in 1..Len(loaded'.added) :
                       ~ReplacedByRelogin(loaded'.added[k].model.token)]_vars

C27_Step ==
    Loads =>
        /\ outcome' = Constructed =>
              (pc' = "idle" /\ Len(active_accounts') >= 1)
        /\ outcome' # Constructed =>
              (pc' = "down" /\ outcome' \in {NoAccountsInitialized, SaveRaised})
        /\ outcome' = NoAccountsInitialized =>
              (loaded'.added = <<>> /\ issued' = issued)
        /\ (loaded'.added = <<>> /\ issued' = issued) => outcome' # Constructed

\* C27: a construction fails or leaves a pool of at least one account: with
\* no session restored and no login succeeding it fails (with "No accounts
\* could be initialized" when the save is not what failed), and the pool of
\* a constructed gateway is never empty.
C27_ConstructedPoolIsNonEmpty ==
    /\ [](pc = "idle" => Len(active_accounts) >= 1)
    /\ [][C27_Step]_vars

\* A construction found nothing to restore, every login failed, and it
\* raised.
C27_Witness ==
    /\ pc = "down"
    /\ loaded.done
    /\ loaded.added = <<>>
    /\ outcome = NoAccountsInitialized

----------------------------------------------------------------------------
\* Several threads calling execute_api_call on one FyersAccount, and another
\* process reading the session file. The code takes no lock, so the threads
\* interleave between the statements of execute_api_call; get_next_account,
\* the three assignments after a login, and the building of the records with
\* the open of the file are each taken as one step.

NumCallers == 2
MaxEntries == 1
Callers == 1..NumCallers

\* The variables of the single caller, which the threads leave alone.
single == <<now, pc, attempt, account, log, outcome, served, picked>>

\* A thread outside execute_api_call.
Outside ==
    [pc |-> "out", account |-> Unbound, handle |-> NoToken, stale |-> FALSE,
     tmp |-> 0, pending |-> MissingFile, left |-> 0, entries |-> 0]

Thread(c) == callers.threads[c]

\* The thread c enters execute_api_call (line 200) and begins the first
\* iteration of its loop.
Enter(c) ==
    /\ Thread(c).pc = "out"
    /\ Thread(c).entries < MaxEntries
    /\ Len(active_accounts) > 0
    /\ callers' = [callers EXCEPT !.threads[c] =
                      [@ EXCEPT !.pc = "check",
                                !.left = Len(active_accounts) - 1,
                                !.entries = @ + 1]]
    /\ UNCHANGED <<active_accounts, current, session_file, issued, loaded, single>>

\* Line 70: the test of _current_account in the property current_account;
\* line 72 returns the account when one is set.
CheckCurrent(c) ==
    /\ Thread(c).pc = "check"
    /\ callers' = [callers EXCEPT !.threads[c] =
                      IF current # None
                      THEN [@ EXCEPT !.pc = "invoke", !.account = current]
                      ELSE [@ EXCEPT !.pc = "get_next"]]
    /\ UNCHANGED <<active_accounts, current, session_file, issued, loaded, single>>

\* Line 71: get_next_account, and the assignment of what it returned. When it
\* raises, the handler of the thread raises in turn and the call ends.
GetNext(c) ==
    /\ Thread(c).pc = "get_next"
    /\ LET s == get_next_account(active_accounts, current, now)
       IN  /\ active_accounts' = s.deque
           /\ current' = s.current
           /\ callers' = [callers EXCEPT !.threads[c] =
                             IF s.raised THEN [@ EXCEPT !.pc = "out"]
                             ELSE [@ EXCEPT !.pc = "invoke",
                                            !.account = s.current]]
    /\ UNCHANGED <<session_file, issued, loaded, single>>

\* Line 203, getattr(account['model'], api_method): the thread takes the
\* handle the account has at this moment.
FetchHandle(c) ==
    /\ Thread(c).pc = "invoke"
    /\ LET a == Thread(c).account
       IN  callers' = [callers EXCEPT !.threads[c] =
                          [@ EXCEPT !.pc = "call",
                                    !.handle = active_accounts[
                                        IndexOf(active_accounts, a)].model.token]]
    /\ UNCHANGED <<active_accounts, current, session_file, issued, loaded, single>>

\* Line 203, the call on that handle: the broker call returns, or raises
\* with an expired token. `stale` records that the account had taken another
\* handle by the time of the call.
InvocationResults == {"returns", "TokenIsExpired"}
Invoke(c, r) ==
    /\ Thread(c).pc = "call"
    /\ LET a == Thread(c).account
           tok == active_accounts[IndexOf(active_accounts, a)].model.token
           late == Thread(c).handle # tok
       IN  IF r = "returns"
           THEN callers' = [callers EXCEPT !.threads[c].pc = "read",
                                           !.threads[c].stale = late,
                                           !.succeeded[a] = @ + 1]
           ELSE /\ NextToken(Thread(c).handle)[2] <= MaxLogins
                /\ callers' = [callers EXCEPT !.threads[c].pc = "login",
                                              !.threads[c].stale = late]
    /\ UNCHANGED <<active_accounts, current, session_file, issued, loaded, single>>

\* Line 204, account['calls'] += 1: the read of the counter ...
ReadCalls(c) ==
    /\ Thread(c).pc = "read"
    /\ LET a == Thread(c).account
       IN  callers' = [callers EXCEPT !.threads[c] =
                          [@ EXCEPT !.pc = "write",
                                    !.tmp = active_accounts[
                                              IndexOf(active_accounts, a)].calls]]
    /\ UNCHANGED <<active_accounts, current, session_file, issued, loaded, single>>

\* ... and the write of the counter; the call returns its result (line 214).
WriteCalls(c) ==
    /\ Thread(c).pc = "write"
    /\ LET a == Thread(c).account
       IN  active_accounts' =
               [active_accounts EXCEPT ![IndexOf(active_accounts, a)].calls =
                   Thread(c).tmp + 1]
    /\ callers' = [callers EXCEPT !.threads[c].pc = "out"]
    /\ UNCHANGED <<current, session_file, issued, loaded, single>>

\* Lines 223-227: the login succeeds and the account takes the new handle
\* and a fresh window.
LoginInstalls(c) ==
    /\ Thread(c).pc = "login"
    /\ LET a == Thread(c).account
           old == active_accounts[IndexOf(active_accounts, a)].model.token
           new_model == FyersModel(NextToken(old), a)
       IN  /\ active_accounts' = InstallModel(active_accounts, a, new_model, now)
           /\ issued' = Issue(issued, {new_model.token}, now, "relogin")
           /\ callers' = [callers EXCEPT !.threads[c].pc = "open",
                                         !.succeeded[a] = 0]
    /\ UNCHANGED <<current, session_file, loaded, single>>

\* _save_sessions, lines 185-195: the records are built from the pool, and
\* open(..., 'w') empties the file.
OpenStore(c) ==
    /\ Thread(c).pc = "open"
    /\ session_file' = TruncatedFile
    /\ callers' = [callers EXCEPT !.threads[c] =
                      [@ EXCEPT !.pc = "dump",
                                !.pending = SavedSessions(active_accounts, now)]]
    /\ UNCHANGED <<active_accounts, current, issued, loaded, single>>

\* Line 196: json.dump writes the records; line 229 continues with the next
\* iteration, and line 242 raises when there is none.
DumpStore(c) ==
    /\ Thread(c).pc = "dump"
    /\ session_file' = Thread(c).pending
    /\ callers' = [callers EXCEPT !.threads[c] =
                      IF @.left > 0
                      THEN [@ EXCEPT !.pc = "check", !.left = @ - 1]
                      ELSE [@ EXCEPT !.pc = "out"]]
    /\ UNCHANGED <<active_accounts, current, issued, loaded, single>>

\* Another process is constructed: its _load_sessions reads the file as it
\* is at this moment.
OtherProcessLoads ==
    /\ LET l == LoadSessions(session_file, now)
       IN  loaded' = [done |-> TRUE, at |-> now, file |-> session_file,
                      ok |-> l.ok, added |-> l.added]
    /\ UNCHANGED <<active_accounts, current, session_file, issued, callers, single>>

ConcurrentInit ==
    /\ active_accounts = InitialPool(NumAccounts)
    /\ current = None
    /\ now = 0
    /\ session_file = SavedSessions(active_accounts, 0)
    /\ pc = "idle"
    /\ attempt = 0
    /\ account = Unbound
    /\ log = <<>>
    /\ outcome = NoOutcome
    /\ served = NoneServed
    /\ picked = <<>>
    /\ issued = IssuedAt(active_accounts, 0)
    /\ loaded = NoLoad
    /\ callers = [threads |-> [c \in Callers |-> Outside],
                  succeeded |-> [a \in Accounts |-> 0]]

ConcurrentNext ==
    \/ \E c \in Callers : Enter(c)
    \/ \E c \in Callers : CheckCurrent(c)
    \/ \E c \in Callers : GetNext(c)
    \/ \E c \in Callers : FetchHandle(c)
    \/ \E c \in Callers, r \in InvocationResults : Invoke(c, r)
    \/ \E c \in Callers : ReadCalls(c)
    \/ \E c \in Callers : WriteCalls(c)
    \/ \E c \in Callers : LoginInstalls(c)
    \/ \E c \in Callers : OpenStore(c)
    \/ \E c \in Callers : DumpStore(c)
    \/ OtherProcessLoads

ConcurrentSpec == ConcurrentInit /\ [][ConcurrentNext]_vars

\* The threads that selected the account a and have not yet counted their
\* call on it.
InFlight(a) ==
    {c \in Callers : /\ Thread(c).pc \in {"invoke", "call", "read", "write"}
                     /\ Thread(c).account = a}

\* C28: selecting an account reserves the call: the calls counted on an
\* account and the calls in flight on it never exceed the limit together,
\* the counter never passes the limit, and once no call is in flight every
\* call that succeeded since the counter was last reset has been counted.
C28_SelectionReservesTheCall ==
    \A i \in 1..Len(active_accounts) :
        LET a == active_accounts[i].client_id
        IN  /\ active_accounts[i].calls <= calls_per_minute
            /\ Cardinality(InFlight(a)) > 1 =>
                  active_accounts[i].calls + Cardinality(InFlight(a))
                      <= calls_per_minute
            /\ InFlight(a) = {} =>
                  active_accounts[i].calls >= callers.succeeded[a]

\* C29: a load that runs while the sessions are being saved reads a complete
\* file, the one before the save or the one after it.
C29_LoadSeesCompleteStore ==
    loaded.done => loaded.file.state = "written"

\* The counter the call of the row p found on the account client_id, after
\* its resets.
CallsFound(p, client_id) == p.after[IndexOf(p.after, client_id)].calls

\* The accounts the call of the row p examined before the one at position q
\* of the pool it started with: those from the second position up to q - 1,
\* and all but the head when q is the head.
ExaminedBefore(p, q) ==
    IF q = 1 THEN 2..Len(p.before) ELSE 2..(q - 1)

\* C31: get_next_account returns the first account under its limit in the
\* order of the pool, starting after the head and ending with the head; the
\* account returned is the head of the pool and the current account.
C31_FirstEligibleAfterHead ==
    /\ \A i \in 1..Len(picked) :
          LET p == picked[i]
          IN  ~p.raised =>
                  \E q \in 1..Len(p.before) :
                      /\ p.before[q].client_id = p.client_id
                      /\ CallsFound(p, p.client_id) < calls_per_minute
                      /\ \A j \in ExaminedBefore(p, q) :
                            CallsFound(p, p.before[j].client_id) >= calls_per_minute
                      /\ p.after[1].client_id = p.client_id
    /\ (Len(picked) > 0 /\ ~picked[Len(picked)].raised) =>
          /\ current = picked[Len(picked)].client_id
          /\ active_accounts = picked[Len(picked)].after

\* get_next_account returned the account that was the head before the call,
\* every other account being at its limit.
C31_Witness ==
    /\ Len(picked) > 0
    /\ LET p == picked[Len(picked)]
       IN  /\ ~p.raised
           /\ Len(p.before) >= 2
           /\ p.before[1].client_id = p.client_id
           /\ \A j \in 2..Len(p.before) :
                 CallsFound(p, p.before[j].client_id) >= calls_per_minute

\* C32: the current account is unset or is the account at the head of the
\* pool, and so a member of the pool.
C32_CurrentIsHead ==
    current # None =>
        /\ Len(active_accounts) > 0
        /\ active_accounts[1].client_id = current

\* get_next_account has raised while an account was current, and that
\* account is still the head of the pool.
C32_Witness ==
    /\ Len(picked) > 0
    /\ picked[Len(picked)].raised
    /\ Len(active_accounts) >= 2
    /\ current # None
    /\ active_accounts[1].client_id = current

\* The client_ids of the pool, in its order.
PoolOrder == [i \in 1..Len(active_accounts) |-> active_accounts[i].client_id]

\* The sequence ids is the sequence 1..Len(ids) of initialization, rotated.
IsRotationOfInitial(ids) ==
    \/ Len(ids) = 0
    \/ \E k \in 0..(Len(ids) - 1) :
          \A i \in 1..Len(ids) : ids[i] = ((i - 1 + k) % Len(ids)) + 1

OneRecordPerClient(file) ==
    \A i, j \in 1..Len(file.sessions) :
        (/\ IsDict(file.sessions[i]) /\ HasClientId(file.sessions[i])
         /\ IsDict(file.sessions[j]) /\ HasClientId(file.sessions[j])
         /\ file.sessions[i].account.client_id = file.sessions[j].account.client_id)
            => i = j

\* C34: after a construction that found at most one record per client_id in
\* the store, no two pooled accounts have the same client_id.
C34_PooledClientIdsAreDistinct ==
    (pc = "idle" /\ loaded.done /\ OneRecordPerClient(loaded.file)) =>
        \A i, j \in 1..Len(active_accounts) :
            active_accounts[i].client_id = active_accounts[j].client_id => i = j

\* C35: a construction whose load restored at least one session performs no
\* login and does not write the store, and its pool is exactly the restored
\* sessions.
C35_RestoredPoolNeedsNoLogin ==
    [][(Loads /\ loaded'.added # <<>>) =>
          /\ outcome' = Constructed
          /\ issued' = issued
          /\ session_file' = session_file
          /\ Bindings(active_accounts') = Bindings(loaded'.added)]_vars

\* A step in which get_next_account was called directly and raised.
SelectionFails ==
    /\ Len(picked') = Len(picked) + 1
    /\ picked'[Len(picked')].raised

\* C36: a call of get_next_account that raises because every account is at
\* its limit leaves the pool as it was: the order, the current account, and
\* every counter and window start.
C36_FailedSelectionChangesNothing ==
    [][SelectionFails =>
          /\ active_accounts' = active_accounts
          /\ current' = current
          /\ picked'[Len(picked')].after = picked'[Len(picked')].before]_vars

\* get_next_account has raised "all accounts have reached rate limit" on a
\* pool of two with a current account, and the pool is as it was.
C36_Witness ==
    /\ Len(picked) > 0
    /\ picked[Len(picked)].raised
    /\ picked[Len(picked)].exc = "AllRateLimited"
    /\ Len(picked[Len(picked)].before) >= 2
    /\ picked[Len(picked)].after = picked[Len(picked)].before
    /\ current # None

\* A step that ends the call on an invocation that failed with a kind that
\* is neither an auth kind nor a rate-limit kind, and the account it ran on.
EndsOnOtherFailure ==
    /\ pc = "loop"
    /\ pc' = "done"
    /\ Len(log') = Len(log) + 1
    /\ log'[Len(log')].ev = "invoke"
    /\ ~log'[Len(log')].ok
    /\ MatchedKinds(log'[Len(log')].exc) \cap (AuthKinds \cup RotationKinds) = {}
FailedAccount == log'[Len(log')].client_id

\* C37: a call that ends with a non-recoverable error leaves the pool as it
\* was before the call: the order, the current account, every handle,
\* counter and window start. (Written for the call that ends at its first
\* invocation, whose step starts in the state the call found.)
C37_FailedCallChangesNothing ==
    [][(EndsOnOtherFailure /\ log = <<>>) =>
          /\ active_accounts' = active_accounts
          /\ current' = current]_vars

\* C37, amended: the non-recoverable error changes nothing after the
\* selection of its attempt: the pool is as that selection left it (rotated
\* to the selected account, elapsed windows reset, the account current), and
\* the account that failed stays current, so that the next call makes its
\* first invocation on it, whenever it comes.
C37_FailedInvocationChangesNothing ==
    [][EndsOnOtherFailure =>
          LET s == current_account(active_accounts, current, now)
          IN  /\ active_accounts' = s.deque
              /\ current' = s.current
              /\ current' = FailedAccount
              /\ active_accounts'[1].client_id = FailedAccount
              /\ \A t \in now..(MaxNow + Window) :
                    LET n == current_account(active_accounts', current', t)
                    IN  /\ ~n.raised
                        /\ n.current = FailedAccount
                        /\ n.deque = active_accounts']_vars

\* A call rotated away from a rate-limited account and then ended on an
\* unmatched failure of the account it selected, which is now the head of
\* the pool and current.
C37_Witness ==
    /\ Done
    /\ Len(log) >= 2
    /\ RateLimitedAt(1)
    /\ OtherFailedAt(Len(log))
    /\ current = log[Len(log)].client_id
    /\ active_accounts[1].client_id = current
    /\ log[1].client_id # current

\* A step whose handler tried a re-login and failed in it: the login failed,
\* or the login succeeded and _save_sessions raised while writing. The
\* account is the one the step tried to log in again.
ReloginStepFails ==
    /\ pc = "loop"
    /\ Len(log') > Len(log)
    /\ log'[Len(log')].ev = "login"
    /\ \/ ~log'[Len(log')].ok
       \/ session_file'.state = "truncated"
ReloginAccount == log'[Len(log')].client_id

\* C38: a re-login step that fails leaves the account's handle, counter and
\* window start, and the contents of the store, as they were before the
\* step (that is, as the selection of the attempt left them).
C38_FailedReloginChangesNothing ==
    [][ReloginStepFails =>
          LET s == current_account(active_accounts, current, now)
          IN  /\ active_accounts'[IndexOf(active_accounts', ReloginAccount)]
                    = s.deque[IndexOf(s.deque, ReloginAccount)]
              /\ session_file' = session_file]_vars

\* The tokens the re-logins of the threads obtained for the account a.
ReloginTokens(a) ==
    {tok \in DOMAIN issued : tok[1] = a /\ issued[tok].how = "relogin"}

\* C39: when the threads meet a token failure on the same account, at most
\* one login is performed for it, and no thread makes its broker call on a
\* handle the account has already replaced.
C39_OneLoginPerFailedToken ==
    /\ \A a \in Accounts : Cardinality(ReloginTokens(a)) <= 1
    /\ \A c \in Callers : ~Thread(c).stale

====
